---- MODULE Spec2Model ----
(***************************************************************************)
(* Smart Tic-Tac-Toe with Minimax: the board state (TicTacToe), the move   *)
(* search (minimax, find_best_move) of src/tictactoe_logic.py and the      *)
(* event handlers of src/main.py that drive them.                          *)
(***************************************************************************)
EXTENDS Integers, Sequences, FiniteSets, TLC

VARIABLES
    board,        \* TicTacToe.board: board[row][col], row and col in 0..2
    game_active,  \* TicTacToeGUI.game_active
    status,       \* text and colour of TicTacToeGUI.status_label
    buttons,      \* text and state of TicTacToeGUI.buttons[row][col]
    pending,      \* number of ai_move callbacks scheduled by root.after
    call          \* the last operation: its name, its arguments, the board
                  \* it started from and the value it returned

vars == <<board, game_active, status, buttons, pending, call>>

gui == <<game_active, status, buttons, pending>>

(***************************************************************************)
(* Bounds of the exploration.                                              *)
(***************************************************************************)
\* minimax and find_best_move are applied to the boards with at most
\* MaxEmpty empty cells
MaxEmpty == 4

\* a repeated call of minimax is given a depth argument of 0 .. MaxDepthArg
MaxDepthArg == 1

\* at most MaxPending ai_move callbacks are scheduled and not yet run
MaxPending == 2

(***************************************************************************)
(* Values.                                                                 *)
(***************************************************************************)
Idx == 0 .. 2

Marks == {"", "X", "O"}

\* -float('inf') and float('inf'): below and above every score
NegInf == -2

PosInf == 2

\* Python's None
None == <<>>

Max(a, b) == IF a >= b THEN a ELSE b

Min(a, b) == IF a <= b THEN a ELSE b

(***************************************************************************)
(* class TicTacToe                                                         *)
(***************************************************************************)
EmptyBoard == [row \in Idx |-> [col \in Idx |-> ""]]

\* board.board[row][col] = mark
SetCell(b, row, col, mark) == [b EXCEPT ![row][col] = mark]

\* the two loops nested the other way round
ColumnMajorOrder ==
    << <<0, 0>>, <<1, 0>>, <<2, 0>>,
       <<0, 1>>, <<1, 1>>, <<2, 1>>,
       <<0, 2>>, <<1, 2>>, <<2, 2>> >>

\* the order in which "for row in range(3): for col in range(3)" visits
\* the cells
ScanOrder ==
    << <<0, 0>>, <<0, 1>>, <<0, 2>>,
       <<1, 0>>, <<1, 1>>, <<1, 2>>,
       <<2, 0>>, <<2, 1>>, <<2, 2>> >>

\* the cells visited, in that order, that hold ''
get_available_moves(b) ==
    SelectSeq(ScanOrder, LAMBDA move : b[move[1]][move[2]] = "")

\* all(self.board[row][col] == player for col in range(3))
RowAll(b, row, player) ==
    b[row][0] = player /\ b[row][1] = player /\ b[row][2] = player

\* all(self.board[row][col] == player for row in range(3))
ColAll(b, col, player) ==
    b[0][col] = player /\ b[1][col] = player /\ b[2][col] = player

\* the cells of the diagonal are compared with each other, not with player
DiagAll_any_mark(b, player) ==
    b[0][0] # "" /\ b[0][0] = b[1][1] /\ b[1][1] = b[2][2]

\* all(self.board[i][i] == player for i in range(3))
DiagAll(b, player) ==
    b[0][0] = player /\ b[1][1] = player /\ b[2][2] = player

\* board[i][i] is read instead of board[i][2-i]
AntiDiagAll_main(b, player) ==
    b[0][0] = player /\ b[1][1] = player /\ b[2][2] = player

\* all(self.board[i][2-i] == player for i in range(3))
AntiDiagAll(b, player) ==
    b[0][2] = player /\ b[1][1] = player /\ b[2][0] = player

\* a diagonal filled with one mark, whichever, also counts for player
check_winner_any_diagonal(b, player) ==
    \/ RowAll(b, 0, player) \/ RowAll(b, 1, player) \/ RowAll(b, 2, player)
    \/ ColAll(b, 0, player) \/ ColAll(b, 1, player) \/ ColAll(b, 2, player)
    \/ DiagAll(b, "X") \/ DiagAll(b, "O")
    \/ AntiDiagAll(b, "X") \/ AntiDiagAll(b, "O")

check_winner(b, player) ==
    \/ RowAll(b, 0, player) \/ RowAll(b, 1, player) \/ RowAll(b, 2, player)
    \/ ColAll(b, 0, player) \/ ColAll(b, 1, player) \/ ColAll(b, 2, player)
    \/ DiagAll(b, player)
    \/ AntiDiagAll(b, player)

\* a full board is not recognised: is_draw answers False on every board
is_draw_never(b) == FALSE

\* the winner check is left out
is_draw_full_board(b) == Len(get_available_moves(b)) = 0

is_draw(b) ==
    IF check_winner(b, "X") \/ check_winner(b, "O")
    THEN FALSE
    ELSE Len(get_available_moves(b)) = 0

(***************************************************************************)
(* minimax works on the caller's board in place: it writes the mark, calls *)
(* itself and writes '' back.  Its result here is the score returned, the  *)
(* board as the call leaves it, and the number of marks the call has       *)
(* written on the board while exploring.                                   *)
(***************************************************************************)
RECURSIVE minimax(_, _, _)
RECURSIVE MaximizingLoop(_, _, _, _, _, _)
RECURSIVE MinimizingLoop(_, _, _, _, _, _)
RECURSIVE MaximizingLoop_good_enough(_, _, _, _, _, _)

\* the undo is left out
KeepMove(b, row, col) == b

\* the cell is given ' ' instead of ''
UndoMove_blank(b, row, col) == SetCell(b, row, col, " ")

\* board.board[row][col] = '' after the recursive call
UndoMove(b, row, col) == SetCell(b, row, col, "")

\* the maximizing branch stops at the first move that does not lose
MaximizingLoop_good_enough(b, depth, moves, i, best_score, placed) ==
    IF i > Len(moves) \/ best_score >= 0
    THEN [score |-> best_score, board |-> b, placed |-> placed]
    ELSE LET row == moves[i][1]
             col == moves[i][2]
             r == minimax(SetCell(b, row, col, "O"), depth + 1, FALSE)
         IN MaximizingLoop_good_enough(UndoMove(r.board, row, col), depth,
                                       moves, i + 1,
                                       Max(best_score, r.score),
                                       placed + 1 + r.placed)

\* "for row, col in board.get_available_moves()" of the maximizing branch,
\* from the i-th move on
MaximizingLoop(b, depth, moves, i, best_score, placed) ==
    IF i > Len(moves)
    THEN [score |-> best_score, board |-> b, placed |-> placed]
    ELSE LET row == moves[i][1]
             col == moves[i][2]
             r == minimax(SetCell(b, row, col, "O"), depth + 1, FALSE)
         IN MaximizingLoop(UndoMove(r.board, row, col), depth, moves, i + 1,
                           Max(best_score, r.score), placed + 1 + r.placed)

\* the same loop of the minimizing branch
MinimizingLoop(b, depth, moves, i, best_score, placed) ==
    IF i > Len(moves)
    THEN [score |-> best_score, board |-> b, placed |-> placed]
    ELSE LET row == moves[i][1]
             col == moves[i][2]
             r == minimax(SetCell(b, row, col, "X"), depth + 1, TRUE)
         IN MinimizingLoop(UndoMove(r.board, row, col), depth, moves, i + 1,
                           Min(best_score, r.score), placed + 1 + r.placed)

\* a win is scored by its distance from the root: 10 - depth, depth - 10
minimax_depth_scored(b, depth, is_maximizing) ==
    IF check_winner(b, "O")
    THEN [score |-> 10 - depth, board |-> b, placed |-> 0]
    ELSE IF check_winner(b, "X")
    THEN [score |-> depth - 10, board |-> b, placed |-> 0]
    ELSE IF is_draw(b) THEN [score |-> 0, board |-> b, placed |-> 0]
    ELSE IF is_maximizing
         THEN MaximizingLoop(b, depth, get_available_moves(b), 1, NegInf, 0)
         ELSE MinimizingLoop(b, depth, get_available_moves(b), 1, PosInf, 0)

\* the win of 'X' is looked for before the win of 'O'
minimax_x_first(b, depth, is_maximizing) ==
    IF check_winner(b, "X") THEN [score |-> -1, board |-> b, placed |-> 0]
    ELSE IF check_winner(b, "O") THEN [score |-> 1, board |-> b, placed |-> 0]
    ELSE IF is_draw(b) THEN [score |-> 0, board |-> b, placed |-> 0]
    ELSE IF is_maximizing
         THEN MaximizingLoop(b, depth, get_available_moves(b), 1, NegInf, 0)
         ELSE MinimizingLoop(b, depth, get_available_moves(b), 1, PosInf, 0)

minimax(b, depth, is_maximizing) ==
    IF check_winner(b, "O") THEN [score |-> 1, board |-> b, placed |-> 0]
    ELSE IF check_winner(b, "X") THEN [score |-> -1, board |-> b, placed |-> 0]
    ELSE IF is_draw(b) THEN [score |-> 0, board |-> b, placed |-> 0]
    ELSE IF is_maximizing
         THEN MaximizingLoop(b, depth, get_available_moves(b), 1, NegInf, 0)
         ELSE MinimizingLoop(b, depth, get_available_moves(b), 1, PosInf, 0)

(***************************************************************************)
(* find_best_move: the move returned (None when there is none) and the     *)
(* board as the call leaves it.                                            *)
(***************************************************************************)
RECURSIVE BestMoveLoop(_, _, _, _, _)

\* the candidate is scored as if the computer moved again
BestMoveLoop_wrong_turn(b, available_moves, i, best_move, best_score) ==
    IF i > Len(available_moves) THEN [move |-> best_move, board |-> b]
    ELSE LET row == available_moves[i][1]
             col == available_moves[i][2]
             r == minimax(SetCell(b, row, col, "O"), 0, TRUE)
             b2 == UndoMove(r.board, row, col)
         IN IF r.score > best_score
            THEN BestMoveLoop(b2, available_moves, i + 1, <<row, col>>, r.score)
            ELSE BestMoveLoop(b2, available_moves, i + 1, best_move, best_score)

\* best_score is not updated when a better move is found
BestMoveLoop_no_update(b, available_moves, i, best_move, best_score) ==
    IF i > Len(available_moves) THEN [move |-> best_move, board |-> b]
    ELSE LET row == available_moves[i][1]
             col == available_moves[i][2]
             r == minimax(SetCell(b, row, col, "O"), 0, FALSE)
             b2 == UndoMove(r.board, row, col)
         IN IF r.score > best_score
            THEN BestMoveLoop(b2, available_moves, i + 1, <<row, col>>,
                              best_score)
            ELSE BestMoveLoop(b2, available_moves, i + 1, best_move, best_score)

\* a later move of equal score replaces the tracked move
BestMoveLoop_last_tie(b, available_moves, i, best_move, best_score) ==
    IF i > Len(available_moves) THEN [move |-> best_move, board |-> b]
    ELSE LET row == available_moves[i][1]
             col == available_moves[i][2]
             r == minimax(SetCell(b, row, col, "O"), 0, FALSE)
             b2 == UndoMove(r.board, row, col)
         IN IF r.score >= best_score
            THEN BestMoveLoop(b2, available_moves, i + 1, <<row, col>>, r.score)
            ELSE BestMoveLoop(b2, available_moves, i + 1, best_move, best_score)

\* the move is tracked as (col, row)
BestMoveLoop_col_row(b, available_moves, i, best_move, best_score) ==
    IF i > Len(available_moves) THEN [move |-> best_move, board |-> b]
    ELSE LET row == available_moves[i][1]
             col == available_moves[i][2]
             r == minimax(SetCell(b, row, col, "O"), 0, FALSE)
             b2 == UndoMove(r.board, row, col)
         IN IF r.score > best_score
            THEN BestMoveLoop(b2, available_moves, i + 1, <<col, row>>, r.score)
            ELSE BestMoveLoop(b2, available_moves, i + 1, best_move, best_score)

\* "for row, col in available_moves" of find_best_move, from the i-th move on
BestMoveLoop(b, available_moves, i, best_move, best_score) ==
    IF i > Len(available_moves) THEN [move |-> best_move, board |-> b]
    ELSE LET row == available_moves[i][1]
             col == available_moves[i][2]
             r == minimax(SetCell(b, row, col, "O"), 0, FALSE)
             b2 == UndoMove(r.board, row, col)
         IN IF r.score > best_score
            THEN BestMoveLoop(b2, available_moves, i + 1, <<row, col>>, r.score)
            ELSE BestMoveLoop(b2, available_moves, i + 1, best_move, best_score)

\* best_score starts at 0 instead of -infinity
find_best_move_from_zero(b) ==
    LET available_moves == get_available_moves(b)
    IN IF Len(available_moves) = 0
       THEN [move |-> None, board |-> b]
       ELSE BestMoveLoop(b, available_moves, 1, None, 0)

\* the last empty cell is returned without a search
find_best_move_last_empty(b) ==
    LET available_moves == get_available_moves(b)
    IN IF Len(available_moves) = 0
       THEN [move |-> None, board |-> b]
       ELSE [move |-> available_moves[Len(available_moves)], board |-> b]

\* the first empty cell is returned without a search
find_best_move_first_empty(b) ==
    LET available_moves == get_available_moves(b)
    IN IF Len(available_moves) = 0
       THEN [move |-> None, board |-> b]
       ELSE [move |-> available_moves[1], board |-> b]

find_best_move(b) ==
    LET available_moves == get_available_moves(b)
    IN IF Len(available_moves) = 0
       THEN [move |-> None, board |-> b]
       ELSE BestMoveLoop(b, available_moves, 1, None, NegInf)

(***************************************************************************)
(* class TicTacToeGUI                                                      *)
(***************************************************************************)
\* update_status(message, color)
Status(message, color) == [text |-> message, fg |-> color]

\* setup_ui: nine enabled buttons without text
InitialButtons == [row \in Idx |-> [col \in Idx |->
                      [text |-> "", state |-> "normal"]]]

\* the button is not given the mark
KeepText(btns, row, col, mark) == btns

\* self.buttons[row][col].config(text=mark, ...)
ShowMark(btns, row, col, mark) == [btns EXCEPT ![row][col].text = mark]

\* only the buttons of the cells without a mark are disabled
disable_all_buttons_empty_only(btns) ==
    [row \in Idx |-> [col \in Idx |->
        IF btns[row][col].text = ""
        THEN [btns[row][col] EXCEPT !.state = "disabled"]
        ELSE btns[row][col]]]

\* disable_all_buttons: state='disabled' for the nine buttons
disable_all_buttons(btns) ==
    [row \in Idx |-> [col \in Idx |->
        [btns[row][col] EXCEPT !.state = "disabled"]]]

\* TicTacToeGUI.__init__ and setup_ui
InitGUI ==
    /\ board = EmptyBoard
    /\ game_active = TRUE
    /\ status = Status("Your Turn! Click any cell to start.", "green")
    /\ buttons = InitialButtons
    /\ pending = 0
    /\ call = [op |-> "init"]

\* player_move without "self.root.after(500, self.ai_move)" of line 144
player_move_no_timer(row, col) ==
    /\ call' = [op |-> "player_move"]
    /\ IF ~game_active
       THEN UNCHANGED <<board, game_active, status, buttons, pending>>
       ELSE IF board[row][col] # ""
       THEN /\ status' = Status("Cell already taken! Try another cell.",
                                "orange")
            /\ UNCHANGED <<board, game_active, buttons, pending>>
       ELSE LET b1 == SetCell(board, row, col, "X")
                shown == ShowMark(buttons, row, col, "X")
            IN /\ board' = b1
               /\ IF check_winner(b1, "X")
                  THEN /\ status' = Status("Congratulations! You won!", "green")
                       /\ game_active' = FALSE
                       /\ buttons' = disable_all_buttons(shown)
                       /\ UNCHANGED pending
                  ELSE IF is_draw(b1)
                  THEN /\ status' = Status("It's a draw! Good game!", "purple")
                       /\ game_active' = FALSE
                       /\ buttons' = disable_all_buttons(shown)
                       /\ UNCHANGED pending
                  ELSE /\ status' = Status("AI is thinking...", "orange")
                       /\ buttons' = shown
                       /\ UNCHANGED <<game_active, pending>>

\* player_move without the check of lines 119-121 that the cell is empty
player_move_overwrite(row, col) ==
    /\ call' = [op |-> "player_move"]
    /\ IF ~game_active
       THEN UNCHANGED <<board, game_active, status, buttons, pending>>
       ELSE LET b1 == SetCell(board, row, col, "X")
                shown == ShowMark(buttons, row, col, "X")
            IN /\ board' = b1
               /\ IF check_winner(b1, "X")
                  THEN /\ status' = Status("Congratulations! You won!", "green")
                       /\ game_active' = FALSE
                       /\ buttons' = disable_all_buttons(shown)
                       /\ UNCHANGED pending
                  ELSE IF is_draw(b1)
                  THEN /\ status' = Status("It's a draw! Good game!", "purple")
                       /\ game_active' = FALSE
                       /\ buttons' = disable_all_buttons(shown)
                       /\ UNCHANGED pending
                  ELSE /\ status' = Status("AI is thinking...", "orange")
                       /\ buttons' = shown
                       /\ pending' = pending + 1
                       /\ UNCHANGED game_active

\* player_move without "self.game_active = False" of line 130
player_move_stays_active(row, col) ==
    /\ call' = [op |-> "player_move"]
    /\ IF ~game_active
       THEN UNCHANGED <<board, game_active, status, buttons, pending>>
       ELSE IF board[row][col] # ""
       THEN /\ status' = Status("Cell already taken! Try another cell.",
                                "orange")
            /\ UNCHANGED <<board, game_active, buttons, pending>>
       ELSE LET b1 == SetCell(board, row, col, "X")
                shown == ShowMark(buttons, row, col, "X")
            IN /\ board' = b1
               /\ IF check_winner(b1, "X")
                  THEN /\ status' = Status("Congratulations! You won!", "green")
                       /\ buttons' = disable_all_buttons(shown)
                       /\ UNCHANGED <<game_active, pending>>
                  ELSE IF is_draw(b1)
                  THEN /\ status' = Status("It's a draw! Good game!", "purple")
                       /\ game_active' = FALSE
                       /\ buttons' = disable_all_buttons(shown)
                       /\ UNCHANGED pending
                  ELSE /\ status' = Status("AI is thinking...", "orange")
                       /\ buttons' = shown
                       /\ pending' = pending + 1
                       /\ UNCHANGED game_active

\* player_move(row, col): the click handler of button (row, col)
player_move(row, col) ==
    /\ call' = [op |-> "player_move"]
    /\ IF ~game_active
       THEN UNCHANGED <<board, game_active, status, buttons, pending>>
       ELSE IF board[row][col] # ""
       THEN /\ status' = Status("Cell already taken! Try another cell.",
                                "orange")
            /\ UNCHANGED <<board, game_active, buttons, pending>>
       ELSE LET b1 == SetCell(board, row, col, "X")
                shown == ShowMark(buttons, row, col, "X")
            IN /\ board' = b1
               /\ IF check_winner(b1, "X")
                  THEN /\ status' = Status("Congratulations! You won!", "green")
                       /\ game_active' = FALSE
                       /\ buttons' = disable_all_buttons(shown)
                       /\ UNCHANGED pending
                  ELSE IF is_draw(b1)
                  THEN /\ status' = Status("It's a draw! Good game!", "purple")
                       /\ game_active' = FALSE
                       /\ buttons' = disable_all_buttons(shown)
                       /\ UNCHANGED pending
                  ELSE /\ status' = Status("AI is thinking...", "orange")
                       /\ buttons' = shown
                       /\ pending' = pending + 1
                       /\ UNCHANGED game_active

\* ai_move from "row, col = best_move" on, b the board as find_best_move
\* left it
PlaceAIMove(b, best_move) ==
    IF best_move = None
    THEN /\ board' = b
         /\ UNCHANGED <<game_active, status, buttons>>
    ELSE LET row == best_move[1]
             col == best_move[2]
             b1 == SetCell(b, row, col, "O")
             shown == ShowMark(buttons, row, col, "O")
         IN /\ board' = b1
            /\ IF check_winner(b1, "O")
               THEN /\ status' = Status("AI wins! Better luck next time!", "red")
                    /\ game_active' = FALSE
                    /\ buttons' = disable_all_buttons(shown)
               ELSE IF is_draw(b1)
               THEN /\ status' = Status("It's a draw! Good game!", "purple")
                    /\ game_active' = FALSE
                    /\ buttons' = disable_all_buttons(shown)
               ELSE /\ status' = Status("Your turn! Make your move.", "green")
                    /\ buttons' = shown
                    /\ UNCHANGED game_active

\* the guard of lines 151-152 the wrong way round: ai_move returns while
\* the game is active and searches once it is over
ai_move_guard_inverted ==
    /\ pending > 0
    /\ pending' = pending - 1
    /\ IF game_active
       THEN /\ call' = [op |-> "ai_move", searched |-> FALSE]
            /\ UNCHANGED <<board, game_active, status, buttons>>
       ELSE \E r \in {find_best_move(board)} :
               /\ call' = [op |-> "ai_move", searched |-> TRUE,
                           pre |-> board, ret |-> r.move]
               /\ PlaceAIMove(r.board, r.move)

\* ai_move without the "if not self.game_active: return" of lines 151-152
ai_move_unguarded ==
    /\ pending > 0
    /\ pending' = pending - 1
    /\ \E r \in {find_best_move(board)} :
          /\ call' = [op |-> "ai_move", searched |-> TRUE,
                      pre |-> board, ret |-> r.move]
          /\ PlaceAIMove(r.board, r.move)

\* ai_move: the callback that root.after(500, self.ai_move) has scheduled
ai_move ==
    /\ pending > 0
    /\ pending' = pending - 1
    /\ IF ~game_active
       THEN /\ call' = [op |-> "ai_move", searched |-> FALSE]
            /\ UNCHANGED <<board, game_active, status, buttons>>
       ELSE \E r \in {find_best_move(board)} :
               /\ call' = [op |-> "ai_move", searched |-> TRUE,
                           pre |-> board, ret |-> r.move]
               /\ PlaceAIMove(r.board, r.move)

(***************************************************************************)
(* The game of strict alternation: the human clicks only when no reply of  *)
(* the computer is outstanding, and the computer replies with the move     *)
(* find_best_move returns.                                                 *)
(***************************************************************************)
HumanTurn ==
    /\ pending = 0
    /\ \E row \in Idx, col \in Idx : player_move(row, col)

NextGame == HumanTurn \/ ai_move

SpecGame == InitGUI /\ [][NextGame]_vars

\* the steps of ai_move: they are the steps that take a callback off the
\* timers, and one is possible exactly when a callback is pending
TimerRuns == pending > 0 /\ pending' = pending - 1

\* the steps of player_move that write an 'X' when no reply is outstanding
HumanPlaces ==
    /\ pending = 0
    /\ game_active
    /\ \E row \in Idx, col \in Idx :
          board[row][col] = "" /\ board' = SetCell(board, row, col, "X")

\* the game is played on: the human goes on to make legal moves and
\* root.mainloop() runs the timer that is due
FairGame == SpecGame /\ WF_board(HumanPlaces) /\ WF_pending(TimerRuns)

(***************************************************************************)
(* The game of alternating legal moves: as above, but the computer's mark  *)
(* goes to any empty cell.                                                 *)
(***************************************************************************)
AnyReply ==
    /\ pending > 0
    /\ game_active
    /\ pending' = pending - 1
    /\ \E i \in 1 .. Len(get_available_moves(board)) :
          LET move == get_available_moves(board)[i]
          IN /\ call' = [op |-> "ai_move", searched |-> FALSE]
             /\ PlaceAIMove(board, move)

NextLegal == HumanTurn \/ AnyReply

SpecLegal == InitGUI /\ [][NextLegal]_vars

(***************************************************************************)
(* The board under direct use, as the tests use it: cells are assigned and *)
(* the queries are called.                                                 *)
(***************************************************************************)
EmptyCells(b) == {move \in Idx \X Idx : b[move[1]][move[2]] = ""}

EmptyCount(b) == Cardinality(EmptyCells(b))

\* game.board[row][col] = mark
AssignCell ==
    /\ \E row \in Idx, col \in Idx, mark \in Marks :
          board' = SetCell(board, row, col, mark)
    /\ call' = [op |-> "assign"]
    /\ UNCHANGED gui

CallGetAvailableMoves ==
    /\ call' = [op |-> "get_available_moves", pre |-> board,
                ret |-> get_available_moves(board)]
    /\ UNCHANGED <<board, gui>>

CallCheckWinner ==
    /\ \E player \in Marks :
          call' = [op |-> "check_winner", player |-> player, pre |-> board,
                   ret |-> check_winner(board, player)]
    /\ UNCHANGED <<board, gui>>

CallIsDraw ==
    /\ call' = [op |-> "is_draw", pre |-> board, ret |-> is_draw(board)]
    /\ UNCHANGED <<board, gui>>

NextBoard ==
    \/ AssignCell
    \/ CallGetAvailableMoves
    \/ CallCheckWinner
    \/ CallIsDraw

SpecBoard == InitGUI /\ [][NextBoard]_vars

(***************************************************************************)
(* The search applied to a board: every board with at most MaxEmpty empty  *)
(* cells is an input, and minimax or find_best_move is called on it.       *)
(***************************************************************************)
AllBoards == [Idx -> [Idx -> Marks]]

InitSearch ==
    /\ board \in {b \in AllBoards : EmptyCount(b) <= MaxEmpty}
    /\ game_active = TRUE
    /\ status = Status("Your Turn! Click any cell to start.", "green")
    /\ buttons = InitialButtons
    /\ pending = 0
    /\ call = [op |-> "init"]

CallMinimax ==
    /\ call.op = "init"
    /\ \E is_maximizing \in BOOLEAN :
          \E r \in {minimax(board, 0, is_maximizing)} :
             /\ board' = r.board
             /\ call' = [op |-> "minimax", is_maximizing |-> is_maximizing,
                         pre |-> board, ret |-> r.score,
                         placed |-> r.placed]
    /\ UNCHANGED gui

CallFindBestMove ==
    /\ call.op = "init"
    /\ \E r \in {find_best_move(board)} :
          /\ board' = r.board
          /\ call' = [op |-> "find_best_move", pre |-> board, ret |-> r.move]
    /\ UNCHANGED gui

NextSearch == CallMinimax \/ CallFindBestMove

SpecSearch == InitSearch /\ [][NextSearch]_vars

(***************************************************************************)
(* The game of alternating legal moves in which the computer's mark goes   *)
(* either to the cell find_best_move returns or to any empty cell: the     *)
(* search is called on every board that alternating legal moves reach      *)
(* with the computer to move.                                              *)
(***************************************************************************)
NextReplies == HumanTurn \/ ai_move \/ AnyReply

SpecReplies == InitGUI /\ [][NextReplies]_vars

(***************************************************************************)
(* find_best_move applied to a board: the inputs of the search above and   *)
(* the freshly constructed board.                                          *)
(***************************************************************************)
InitBestMove ==
    /\ board \in {b \in AllBoards : EmptyCount(b) <= MaxEmpty} \cup {EmptyBoard}
    /\ game_active = TRUE
    /\ status = Status("Your Turn! Click any cell to start.", "green")
    /\ buttons = InitialButtons
    /\ pending = 0
    /\ call = [op |-> "init"]

NextBestMove == CallFindBestMove

SpecBestMove == InitBestMove /\ [][NextBestMove]_vars

(***************************************************************************)
(* The search called twice in a row on one board: the second call starts   *)
(* from the board as the first call left it.                               *)
(***************************************************************************)
CallMinimaxAgain ==
    /\ call.op = "minimax"
    /\ \E depth \in 0 .. MaxDepthArg :
          \E r \in {minimax(board, depth, call.is_maximizing)} :
             /\ board' = r.board
             /\ call' = [op |-> "minimax_again",
                         is_maximizing |-> call.is_maximizing,
                         depth |-> depth, pre |-> board,
                         first |-> call.ret, ret |-> r.score]
    /\ UNCHANGED gui

CallFindBestMoveAgain ==
    /\ call.op = "find_best_move"
    /\ \E r \in {find_best_move(board)} :
          /\ board' = r.board
          /\ call' = [op |-> "find_best_move_again", pre |-> board,
                      first |-> call.ret, ret |-> r.move]
    /\ UNCHANGED gui

NextRepeat ==
    \/ CallMinimax
    \/ CallFindBestMove
    \/ CallMinimaxAgain
    \/ CallFindBestMoveAgain

SpecRepeat == InitSearch /\ [][NextRepeat]_vars

(***************************************************************************)
(* The application: the events of root.mainloop() in any order.  A click   *)
(* on a cell runs player_move, a click on "Restart Game" runs restart_game *)
(* and a timer that root.after has set runs ai_move.  Nothing holds a      *)
(* click back while a reply of the computer is outstanding, and            *)
(* restart_game cancels no timer.                                          *)
(***************************************************************************)
\* restart_game without "self.game_active = True" of line 210
restart_game_stays_over ==
    /\ board' = EmptyBoard
    /\ buttons' = [row \in Idx |-> [col \in Idx |->
                      [text |-> "", state |-> "normal"]]]
    /\ status' = Status("Your Turn! Click any cell to start.", "green")
    /\ call' = [op |-> "restart_game"]
    /\ UNCHANGED <<game_active, pending>>

\* restart_game: the command of the "Restart Game" button
restart_game ==
    /\ board' = EmptyBoard
    /\ game_active' = TRUE
    /\ buttons' = [row \in Idx |-> [col \in Idx |->
                      [text |-> "", state |-> "normal"]]]
    /\ status' = Status("Your Turn! Click any cell to start.", "green")
    /\ call' = [op |-> "restart_game"]
    /\ UNCHANGED pending

Click ==
    \E row \in Idx, col \in Idx :
        /\ player_move(row, col)
        /\ pending' <= MaxPending

Next == Click \/ ai_move \/ restart_game

Spec == InitGUI /\ [][Next]_vars

\* root.mainloop() runs a timer that is due: ai_move is run whenever a
\* callback is pending
FairSpec == Spec /\ WF_pending(TimerRuns)

(***************************************************************************)
(* The search statement by statement.  ai_move calls find_best_move, which *)
(* works on self.game.board itself: the board variable goes through every  *)
(* hypothetical placement of the search.  call.stack holds the frames of   *)
(* find_best_move and of the calls of minimax below it, the innermost      *)
(* last; call.score is the value the last call of minimax returned.        *)
(***************************************************************************)
\* the frame of find_best_move at "for row, col in available_moves"
BestMoveFrame(available_moves) ==
    [fn |-> "find_best_move", depth |-> 0, is_maximizing |-> TRUE,
     moves |-> available_moves, i |-> 1,
     best_score |-> NegInf, best_move |-> None, pc |-> "loop"]

\* the frame of minimax(board, depth, is_maximizing) at its first line
MinimaxFrame(depth, is_maximizing) ==
    [fn |-> "minimax", depth |-> depth, is_maximizing |-> is_maximizing,
     moves |-> <<>>, i |-> 1,
     best_score |-> 0, best_move |-> None, pc |-> "enter"]

\* the mark the loop of a frame writes: find_best_move and the maximizing
\* branch write 'O', the minimizing branch writes 'X'
FrameMark(frame) == IF frame.is_maximizing THEN "O" ELSE "X"

\* the depth a frame passes on: find_best_move passes 0, minimax depth + 1
FrameNextDepth(frame) ==
    IF frame.fn = "find_best_move" THEN 0 ELSE frame.depth + 1

Top(stack) == stack[Len(stack)]

Pop(stack) == SubSeq(stack, 1, Len(stack) - 1)

\* a call of minimax returns score to the frame below it, which goes on
\* with the undo
ReturnScore(stack, score) ==
    [op |-> "search", pre |-> call.pre, score |-> score,
     stack |-> [Pop(stack) EXCEPT ![Len(stack) - 1].pc = "undo"]]

\* ai_move up to the first line of the loop of find_best_move
BeginSearch ==
    /\ call.op # "search"
    /\ pending > 0
    /\ game_active
    /\ EmptyCount(board) <= MaxEmpty
    /\ pending' = pending - 1
    /\ call' = [op |-> "search", pre |-> board, score |-> 0,
                stack |-> <<BestMoveFrame(get_available_moves(board))>>]
    /\ UNCHANGED <<board, game_active, status, buttons>>

\* board.board[row][col] = 'O' or 'X', and the call of minimax
PlaceStep ==
    /\ call.op = "search"
    /\ LET frame == Top(call.stack)
       IN /\ frame.pc = "loop"
          /\ frame.i <= Len(frame.moves)
          /\ board' = SetCell(board, frame.moves[frame.i][1],
                              frame.moves[frame.i][2], FrameMark(frame))
          /\ call' = [call EXCEPT !.stack =
                         Append(call.stack,
                                MinimaxFrame(FrameNextDepth(frame),
                                             ~frame.is_maximizing))]
    /\ UNCHANGED gui

\* the head of minimax: the three checks, and the start of a loop
EnterStep ==
    /\ call.op = "search"
    /\ LET frame == Top(call.stack)
       IN /\ frame.pc = "enter"
          /\ call' =
                IF check_winner(board, "O") THEN ReturnScore(call.stack, 1)
                ELSE IF check_winner(board, "X")
                THEN ReturnScore(call.stack, -1)
                ELSE IF is_draw(board) THEN ReturnScore(call.stack, 0)
                ELSE [call EXCEPT !.stack[Len(call.stack)] =
                         [frame EXCEPT
                             !.moves = get_available_moves(board),
                             !.best_score = IF frame.is_maximizing
                                            THEN NegInf ELSE PosInf,
                             !.pc = "loop"]]
    /\ UNCHANGED <<board, gui>>

\* "return best_score" of minimax, after the last move of its loop
ReturnStep ==
    /\ call.op = "search"
    /\ LET frame == Top(call.stack)
       IN /\ frame.fn = "minimax"
          /\ frame.pc = "loop"
          /\ frame.i > Len(frame.moves)
          /\ call' = ReturnScore(call.stack, frame.best_score)
    /\ UNCHANGED <<board, gui>>

\* the loop does not go on to the next move: the same move is tried again
UndoStep_same_move ==
    /\ call.op = "search"
    /\ LET frame == Top(call.stack)
           row == frame.moves[frame.i][1]
           col == frame.moves[frame.i][2]
       IN /\ frame.pc = "undo"
          /\ board' = UndoMove(board, row, col)
          /\ call' = [call EXCEPT !.stack[Len(call.stack)] =
                         [frame EXCEPT !.pc = "loop"]]
    /\ UNCHANGED gui

\* board.board[row][col] = '' and the update of best_score (and best_move)
UndoStep ==
    /\ call.op = "search"
    /\ LET frame == Top(call.stack)
           row == frame.moves[frame.i][1]
           col == frame.moves[frame.i][2]
       IN /\ frame.pc = "undo"
          /\ board' = UndoMove(board, row, col)
          /\ call' = [call EXCEPT !.stack[Len(call.stack)] =
                IF frame.fn = "find_best_move"
                THEN IF call.score > frame.best_score
                     THEN [frame EXCEPT !.best_score = call.score,
                                        !.best_move = <<row, col>>,
                                        !.i = frame.i + 1, !.pc = "loop"]
                     ELSE [frame EXCEPT !.i = frame.i + 1, !.pc = "loop"]
                ELSE IF frame.is_maximizing
                THEN [frame EXCEPT
                         !.best_score = Max(frame.best_score, call.score),
                         !.i = frame.i + 1, !.pc = "loop"]
                ELSE [frame EXCEPT
                         !.best_score = Min(frame.best_score, call.score),
                         !.i = frame.i + 1, !.pc = "loop"]]
    /\ UNCHANGED gui

\* "return best_move" of find_best_move and the rest of ai_move
EndSearch ==
    /\ call.op = "search"
    /\ LET frame == Top(call.stack)
       IN /\ frame.fn = "find_best_move"
          /\ frame.pc = "loop"
          /\ frame.i > Len(frame.moves)
          /\ call' = [op |-> "ai_move", searched |-> TRUE,
                      pre |-> call.pre, ret |-> frame.best_move]
          /\ PlaceAIMove(board, frame.best_move)
    /\ UNCHANGED pending

\* the human moves and the computer answers; on a board of at most
\* MaxEmpty empty cells the answer is searched for statement by statement
NextTrace ==
    \/ call.op # "search" /\ HumanTurn
    \/ call.op # "search" /\ AnyReply
    \/ BeginSearch
    \/ PlaceStep
    \/ EnterStep
    \/ ReturnStep
    \/ UndoStep
    \/ EndSearch

SpecTrace == InitGUI /\ [][NextTrace]_vars

\* a statement that can be executed is executed: the interpreter does not
\* stop in the middle of a call
FairTrace == SpecTrace /\ WF_vars(NextTrace)

(***************************************************************************)
(* Properties.                                                             *)
(***************************************************************************)
\* the 8 lines of the grid: 3 rows, 3 columns, the two diagonals
Lines ==
    {{<<row, col>> : col \in Idx} : row \in Idx}
        \cup {{<<row, col>> : row \in Idx} : col \in Idx}
        \cup {{<<i, i>> : i \in Idx}}
        \cup {{<<i, 2 - i>> : i \in Idx}}

\* some line holds mark in its three cells
HasLine(b, mark) ==
    \E line \in Lines : \A cell \in line : b[cell[1]][cell[2]] = mark

\* the score of placing 'O' at move: minimax with the human to move
MoveScore(b, move) ==
    minimax(SetCell(b, move[1], move[2], "O"), 0, FALSE).score

\* C1: in the game of strict alternation from the empty board, the human
\* playing any empty cell and the computer playing the move find_best_move
\* returns, the human never has three in a line: the computer never loses.
C1_ComputerNeverLoses == ~check_winner(board, "X")

\* a game played to the full board: five marks of the human, four replies
C1_Witness ==
    /\ ~game_active
    /\ EmptyCount(board) = 0
    /\ is_draw(board)
    /\ call.op = "player_move"

\* C2: on a board with an empty cell find_best_move returns an empty cell
\* whose score is the maximum of the scores of all empty cells, a score in
\* {-1, 0, 1}.
C2_BestMoveIsOptimal ==
    (call.op = "find_best_move" /\ EmptyCount(call.pre) > 0) =>
        /\ call.ret \in EmptyCells(call.pre)
        /\ MoveScore(call.pre, call.ret) \in {-1, 0, 1}
        /\ \A move \in EmptyCells(call.pre) :
              MoveScore(call.pre, move) <= MoveScore(call.pre, call.ret)

\* the best move is not the first empty cell: it scores 0 and the first
\* empty cell scores -1
C2_Witness ==
    /\ call.op = "find_best_move"
    /\ EmptyCount(call.pre) > 1
    /\ call.ret # get_available_moves(call.pre)[1]
    /\ MoveScore(call.pre, call.ret) = 0
    /\ MoveScore(call.pre, get_available_moves(call.pre)[1]) = -1

\* C3: on every board reached by alternating legal moves, the human first,
\* play stopping at the first win or the full board, 'X' and 'O' have not
\* both won.
C3_AtMostOneWinner == ~(check_winner(board, "X") /\ check_winner(board, "O"))

\* the human wins with the last mark of a full board
C3_Witness ==
    /\ check_winner(board, "X")
    /\ EmptyCount(board) = 0
    /\ ~game_active

\* C4: when minimax or find_best_move returns, every cell holds the value it
\* held when the call started.
C4_BoardRestored ==
    call.op \in {"minimax", "find_best_move"} => board = call.pre

\* a call of minimax that has written and erased at least 10 marks
C4_Witness ==
    /\ call.op = "minimax"
    /\ call.placed >= 10
    /\ board = call.pre

\* C5: for mark 'X' or 'O', check_winner(mark) is true exactly when one of
\* the 8 lines holds mark in its three cells.
C5_WinnerIffLine ==
    (call.op = "check_winner" /\ call.player \in {"X", "O"}) =>
        (call.ret <=> HasLine(call.pre, call.player))

\* check_winner('O') is true on a board whose only line of 'O' is the
\* anti-diagonal
C5_Witness ==
    /\ call.op = "check_winner"
    /\ call.player = "O"
    /\ call.ret
    /\ \A line \in Lines :
          (\A cell \in line : call.pre[cell[1]][cell[2]] = "O")
              => line = {<<i, 2 - i>> : i \in Idx}

\* C6: check_winner('') is false on every board.
C6_EmptyMarkNeverWins ==
    (call.op = "check_winner" /\ call.player = "") => call.ret = FALSE

\* C7: is_draw() is true exactly when no cell is empty and neither 'X' nor
\* 'O' holds a line.
C7_DrawIffFullNoWinner ==
    call.op = "is_draw" =>
        (call.ret <=> /\ EmptyCells(call.pre) = {}
                      /\ ~HasLine(call.pre, "X")
                      /\ ~HasLine(call.pre, "O"))

\* is_draw() is false on a full board that holds a line
C7_Witness ==
    /\ call.op = "is_draw"
    /\ call.ret = FALSE
    /\ EmptyCells(call.pre) = {}
    /\ HasLine(call.pre, "X")

\* C8: get_available_moves() returns the empty cells of the board as it is
\* at the call, each once, in row-major order.
C8_AvailableMovesRowMajor ==
    call.op = "get_available_moves" =>
        /\ board = call.pre
        /\ {call.ret[i] : i \in 1 .. Len(call.ret)} = EmptyCells(board)
        /\ Len(call.ret) = Cardinality(EmptyCells(board))
        /\ \A i \in 1 .. Len(call.ret), j \in 1 .. Len(call.ret) :
              i < j => 3 * call.ret[i][1] + call.ret[i][2]
                           < 3 * call.ret[j][1] + call.ret[j][2]

\* a call made after cells were assigned: three cells of three different
\* rows and columns are left
C8_Witness ==
    /\ call.op = "get_available_moves"
    /\ call.ret = << <<0, 2>>, <<1, 0>>, <<2, 1>> >>

\* C9: minimax returns 1 when 'O' has won, otherwise -1 when 'X' has won,
\* otherwise 0 when the board is a draw, for either value of is_maximizing
\* and without writing a mark.
C9_TerminalScores ==
    call.op = "minimax" =>
        /\ check_winner(call.pre, "O")
              => (call.ret = 1 /\ call.placed = 0)
        /\ (~check_winner(call.pre, "O") /\ check_winner(call.pre, "X"))
              => (call.ret = -1 /\ call.placed = 0)
        /\ (~check_winner(call.pre, "O") /\ ~check_winner(call.pre, "X")
               /\ is_draw(call.pre))
              => (call.ret = 0 /\ call.placed = 0)

\* minimax on a board where both marks hold a line: the win of 'O' is
\* found first
C9_Witness ==
    /\ call.op = "minimax"
    /\ check_winner(call.pre, "O")
    /\ check_winner(call.pre, "X")
    /\ call.ret = 1

\* C10: find_best_move returns None on a board without an empty cell, and
\* then leaves the board as it was; it returns a move on a board with an
\* empty cell.
C10_NoneIffFull ==
    call.op = "find_best_move" =>
        /\ EmptyCount(call.pre) = 0 => (call.ret = None /\ board = call.pre)
        /\ EmptyCount(call.pre) > 0 => call.ret # None

\* find_best_move on a full board
C10_Witness ==
    /\ call.op = "find_best_move"
    /\ EmptyCount(call.pre) = 0
    /\ call.ret = None

\* the empty cells where mark completes a line of three
WinningCells(b, mark) ==
    {move \in EmptyCells(b) : HasLine(SetCell(b, move[1], move[2], mark), mark)}

\* C11: when the computer is to move on a board without a winner, reached
\* by alternating legal moves, and some empty cell completes a line of
\* three 'O', find_best_move returns a cell that completes such a line.
C11_TakesImmediateWin ==
    (call.op = "ai_move" /\ call.searched
        /\ WinningCells(call.pre, "O") # {})
        => call.ret \in WinningCells(call.pre, "O")

\* C12: when the computer is to move on such a board, has no cell that
\* completes a line of 'O', and exactly one empty cell completes a line of
\* three 'X', find_best_move returns that cell.
C12_BlocksSingleThreat ==
    (call.op = "ai_move" /\ call.searched
        /\ WinningCells(call.pre, "O") = {}
        /\ Cardinality(WinningCells(call.pre, "X")) = 1)
        => call.ret \in WinningCells(call.pre, "X")

\* the position of a cell in row-major order
RowMajor(move) == 3 * move[1] + move[2]

\* C13: find_best_move returns the first cell in row-major order among the
\* empty cells of maximum score: every empty cell before it scores strictly
\* less, and no empty cell scores more.
C13_FirstOfTheBest ==
    (call.op = "find_best_move" /\ EmptyCount(call.pre) > 0) =>
        /\ call.ret \in EmptyCells(call.pre)
        /\ \A move \in EmptyCells(call.pre) :
              IF RowMajor(move) < RowMajor(call.ret)
              THEN MoveScore(call.pre, move) < MoveScore(call.pre, call.ret)
              ELSE MoveScore(call.pre, move) <= MoveScore(call.pre, call.ret)

\* the move returned is not the first empty cell, and a later empty cell
\* has the same score
C13_Witness ==
    /\ call.op = "find_best_move"
    /\ call.ret \in EmptyCells(call.pre)
    /\ \E move \in EmptyCells(call.pre) : RowMajor(move) < RowMajor(call.ret)
    /\ \E move \in EmptyCells(call.pre) :
          /\ RowMajor(move) > RowMajor(call.ret)
          /\ MoveScore(call.pre, move) = MoveScore(call.pre, call.ret)

\* C14: a move returned by find_best_move, on any board including the
\* empty board, is a pair (row, col) with row and col in 0..2 that names a
\* cell empty on the board passed in.
C14_MoveInRangeAndEmpty ==
    (call.op = "find_best_move" /\ call.ret # None) =>
        /\ Len(call.ret) = 2
        /\ call.ret[1] \in 0 .. 2
        /\ call.ret[2] \in 0 .. 2
        /\ call.pre[call.ret[1]][call.ret[2]] = ""

\* the move returned on the empty board
C14_Witness ==
    /\ call.op = "find_best_move"
    /\ call.pre = EmptyBoard
    /\ call.ret \in Idx \X Idx

\* C15: a second call of minimax on the same board with the same flag, with
\* any depth argument, returns the score of the first call, and a second
\* call of find_best_move returns the move of the first call.
C15_SameResultTwice ==
    call.op \in {"minimax_again", "find_best_move_again"}
        => call.ret = call.first

\* a second call of minimax, given another depth argument than the first,
\* that has explored a board with a forced win
C15_Witness ==
    /\ call.op = "minimax_again"
    /\ call.depth > 0
    /\ EmptyCount(call.pre) > 1
    /\ ~check_winner(call.pre, "O")
    /\ ~check_winner(call.pre, "X")
    /\ call.ret = 1
    /\ call.first = 1

\* The texts the nine buttons show
ButtonTexts == [row \in Idx |-> [col \in Idx |-> buttons[row][col].text]]

(***************************************************************************)
(* C16: once the game is over (game_active is False), a player_move on any *)
(* cell and a pending ai_move callback leave the board and the button      *)
(* texts as they are; the board changes again only through restart_game.   *)
(***************************************************************************)
C16_FrozenUntilRestart ==
    [][~game_active =>
          \/ call'.op = "restart_game"
          \/ /\ call'.op \in {"player_move", "ai_move"}
             /\ board' = board
             /\ ButtonTexts' = ButtonTexts]_vars

\* a callback scheduled before the human's winning click has run after it
C16_Witness ==
    /\ ~game_active
    /\ check_winner(board, "X")
    /\ call.op = "ai_move"
    /\ ~call.searched

(***************************************************************************)
(* C17: while the game is active, player_move on a cell that holds 'X' or  *)
(* 'O' leaves every board cell and game_active unchanged, schedules no     *)
(* ai_move and sets the status to the 'Cell already taken' warning.        *)
(***************************************************************************)
C17_OccupiedCellRejected ==
    [][\A row \in Idx, col \in Idx :
          (game_active /\ board[row][col] \in {"X", "O"}
                       /\ player_move(row, col)) =>
             /\ board' = board
             /\ game_active' = game_active
             /\ pending' = pending
             /\ status' = Status("Cell already taken! Try another cell.",
                                 "orange")]_vars

\* the warning is shown and the game goes on
C17_Witness ==
    /\ call.op = "player_move"
    /\ game_active
    /\ status = Status("Cell already taken! Try another cell.", "orange")
    /\ board # EmptyBoard

(***************************************************************************)
(* C18: in every state reached through player_move, ai_move and            *)
(* restart_game the text of button (row, col) equals board[row][col], for  *)
(* all nine cells.                                                         *)
(***************************************************************************)
C18_ButtonsShowBoard ==
    \A row \in Idx, col \in Idx : buttons[row][col].text = board[row][col]

\* the computer has just answered: both marks are on the board
C18_Witness ==
    /\ call.op = "ai_move"
    /\ call.searched
    /\ \E row \in Idx, col \in Idx : buttons[row][col].text = "X"
    /\ \E row \in Idx, col \in Idx : buttons[row][col].text = "O"

(***************************************************************************)
(* C19: restart_game, from a game in progress, won or drawn, yields a      *)
(* state in which all nine board cells are empty, game_active is True,     *)
(* every button has empty text and is enabled, and the status shows the    *)
(* initial 'Your Turn' message.                                            *)
(***************************************************************************)
C19_RestartResets ==
    call.op = "restart_game" =>
        /\ \A row \in Idx, col \in Idx : board[row][col] = ""
        /\ game_active = TRUE
        /\ \A row \in Idx, col \in Idx :
              buttons[row][col].text = "" /\ buttons[row][col].state = "normal"
        /\ status = Status("Your Turn! Click any cell to start.", "green")

\* the game was restarted while an answer of the computer was outstanding
C19_Witness ==
    /\ call.op = "restart_game"
    /\ pending > 0

\* the move the statement-by-statement search has returned is the move of
\* find_best_move on the board the search started from
TraceAgrees ==
    (call.op = "ai_move" /\ call.searched) =>
        call.ret = find_best_move(call.pre).move

(***************************************************************************)
(* C20: a freshly constructed board has 3 rows of 3 cells, all empty, and  *)
(* in every state reached through the moves of a game and through the      *)
(* hypothetical placements of the search the board has exactly 3 rows of   *)
(* 3 cells, each cell one of '', 'X', 'O'.                                 *)
(***************************************************************************)
C20_BoardShape ==
    /\ DOMAIN board = Idx
    /\ \A row \in Idx : DOMAIN board[row] = Idx
    /\ \A row \in Idx, col \in Idx : board[row][col] \in Marks
    /\ call.op = "init" => \A row \in Idx, col \in Idx : board[row][col] = ""

\* the search is two placements deep and has undone a placement before
C20_Witness ==
    /\ call.op = "search"
    /\ Len(call.stack) >= 3
    /\ Top(call.stack).pc = "enter"
    /\ call.stack[1].i > 1

\* the value of the position b by full-depth minimax over the sets of
\* successor positions: 1 if 'O' wins, -1 if 'X' wins, 0 for a draw
RECURSIVE GameValue(_, _)
GameValue(b, o_to_move) ==
    IF HasLine(b, "O") THEN 1
    ELSE IF HasLine(b, "X") THEN -1
    ELSE IF EmptyCells(b) = {} THEN 0
    ELSE LET values ==
                 {GameValue(SetCell(b, move[1], move[2],
                                    IF o_to_move THEN "O" ELSE "X"),
                            ~o_to_move) : move \in EmptyCells(b)}
         IN IF o_to_move
            THEN CHOOSE v \in values : \A w \in values : w <= v
            ELSE CHOOSE v \in values : \A w \in values : v <= w

\* the scores minimax gives the positions after mark is written to an empty
\* cell of b, the other side to move
ChildScores(b, mark, is_maximizing) ==
    {minimax(SetCell(b, move[1], move[2], mark), 1, is_maximizing).score :
        move \in EmptyCells(b)}

(***************************************************************************)
(* C21: on a board with no winner and an empty cell, minimax with          *)
(* is_maximizing=True returns the maximum over the empty cells c of        *)
(* minimax(board with 'O' at c, is_maximizing=False), with                 *)
(* is_maximizing=False the minimum over the empty cells c of               *)
(* minimax(board with 'X' at c, is_maximizing=True); the result is the     *)
(* full-depth minimax value of the position.                               *)
(***************************************************************************)
C21_MaxMinOfChildren ==
    (/\ call.op = "minimax"
     /\ ~check_winner(call.pre, "O")
     /\ ~check_winner(call.pre, "X")
     /\ EmptyCount(call.pre) > 0) =>
        /\ call.is_maximizing =>
              /\ call.ret \in ChildScores(call.pre, "O", FALSE)
              /\ \A v \in ChildScores(call.pre, "O", FALSE) : v <= call.ret
        /\ ~call.is_maximizing =>
              /\ call.ret \in ChildScores(call.pre, "X", TRUE)
              /\ \A v \in ChildScores(call.pre, "X", TRUE) : call.ret <= v
        /\ call.ret = GameValue(call.pre, call.is_maximizing)

\* a maximizing call whose first empty cell loses and a later one draws
C21_Witness ==
    /\ call.op = "minimax"
    /\ call.is_maximizing
    /\ ~check_winner(call.pre, "O")
    /\ ~check_winner(call.pre, "X")
    /\ EmptyCount(call.pre) >= 3
    /\ call.ret = 0
    /\ MoveScore(call.pre, get_available_moves(call.pre)[1]) = -1

\* the calls of minimax that are open: the frames above find_best_move's
Nesting == Len(call.stack) - 1

(***************************************************************************)
(* C22: every call of minimax and of find_best_move terminates: each       *)
(* recursive call of minimax is made on a board with exactly one empty     *)
(* cell fewer than its caller's, so the nesting of the recursion never     *)
(* exceeds the number of empty cells at entry (at most 9).                 *)
(***************************************************************************)
C22_SearchTerminates ==
    /\ [](call.op = "search" =>
             /\ Nesting <= EmptyCount(call.pre)
             /\ EmptyCount(call.pre) <= 9
             /\ EmptyCount(board) =
                   IF Top(call.stack).pc = "undo"
                   THEN EmptyCount(call.pre) - Nesting - 1
                   ELSE EmptyCount(call.pre) - Nesting)
    /\ (call.op = "search") ~> (call.op = "ai_move" /\ call.searched)

\* the recursion is as deep as the board had empty cells at entry
C22_Witness ==
    /\ call.op = "search"
    /\ EmptyCount(call.pre) >= 4
    /\ Nesting = EmptyCount(call.pre)
    /\ EmptyCount(board) = 0

\* the marks of one kind on the board
MarkCount(b, mark) ==
    Cardinality({cell \in Idx \X Idx : b[cell[1]][cell[2]] = mark})

(***************************************************************************)
(* C23: whenever ai_move calls find_best_move, the board it passes has     *)
(* check_winner('X') false and is_draw() false, under every interleaving   *)
(* of clicks, restart_game and pending ai_move callbacks.                  *)
(***************************************************************************)
C23_SearchOnLiveBoard ==
    (call.op = "ai_move" /\ call.searched) =>
        /\ ~check_winner(call.pre, "X")
        /\ ~is_draw(call.pre)

\* the search ran with a further callback outstanding, on a board the
\* human had marked twice in a row
C23_Witness ==
    /\ call.op = "ai_move"
    /\ call.searched
    /\ pending > 0
    /\ MarkCount(call.pre, "X") = MarkCount(call.pre, "O") + 2

(***************************************************************************)
(* C24: the game never calls find_best_move on a board without a mark of   *)
(* the human: the computer moves second, also when restart_game is pressed *)
(* while an ai_move callback of the previous game is pending.              *)
(***************************************************************************)
C24_SearchAfterHumanMark ==
    (call.op = "ai_move" /\ call.searched) => MarkCount(call.pre, "X") >= 1

(***************************************************************************)
(* C25: in the GUI the marks are placed in strict alternation, the human   *)
(* first: in every reachable state the number of 'X' minus the number of   *)
(* 'O' is 0 or 1, and at most one ai_move callback is pending.             *)
(***************************************************************************)
C25_StrictAlternation ==
    /\ MarkCount(board, "X") - MarkCount(board, "O") \in {0, 1}
    /\ pending <= 1

(***************************************************************************)
(* C26: in the GUI, under every interleaving of clicks, restart_game and   *)
(* the delayed ai_move callbacks, the state 'human has won'                *)
(* (check_winner('X') true, status 'Congratulations! You won!') is never   *)
(* reached.                                                                *)
(***************************************************************************)
C26_HumanNeverWins ==
    /\ ~check_winner(board, "X")
    /\ status.text # "Congratulations! You won!"

(***************************************************************************)
(* C27: in every state reached through player_move, ai_move and            *)
(* restart_game, game_active is False exactly when the board is terminal   *)
(* (check_winner('X'), check_winner('O') or is_draw()); when game_active   *)
(* is True the board has no winner and an empty cell, and find_best_move   *)
(* called from ai_move never returns None.                                 *)
(***************************************************************************)
C27_ActiveIffNotTerminal ==
    /\ ~game_active <=> \/ check_winner(board, "X")
                        \/ check_winner(board, "O")
                        \/ is_draw(board)
    /\ game_active => /\ ~check_winner(board, "X")
                      /\ ~check_winner(board, "O")
                      /\ EmptyCount(board) >= 1
    /\ (call.op = "ai_move" /\ call.searched) => call.ret # None

\* the computer's move has ended the game
C27_Witness ==
    /\ call.op = "ai_move"
    /\ call.searched
    /\ ~game_active
    /\ check_winner(board, "O")

(***************************************************************************)
(* C28: in every state reached through player_move, ai_move and            *)
(* restart_game, the nine buttons are all disabled exactly when            *)
(* game_active is False and all enabled exactly when game_active is True.  *)
(***************************************************************************)
C28_ButtonsFollowGameActive ==
    /\ ~game_active <=>
          \A row \in Idx, col \in Idx : buttons[row][col].state = "disabled"
    /\ game_active <=>
          \A row \in Idx, col \in Idx : buttons[row][col].state = "normal"

\* the game is over and player_move has been called: the buttons are
\* disabled
C28_Witness ==
    /\ call.op = "player_move"
    /\ ~game_active
    /\ \A row \in Idx, col \in Idx : buttons[row][col].state = "disabled"

(***************************************************************************)
(* C29: every game of alternating play (the human first with any legal     *)
(* moves, the computer playing find_best_move) eventually reaches a        *)
(* terminal state, after at most 9 placements (at most 5 of the human and  *)
(* 4 of the computer); that state is a win of the computer or a draw; no   *)
(* state that is not terminal is without a legal move.                     *)
(***************************************************************************)
C29_GameEnds ==
    /\ [](/\ MarkCount(board, "X") <= 5
          /\ MarkCount(board, "O") <= 4
          /\ ~game_active => (check_winner(board, "O") \/ is_draw(board))
          /\ game_active => EmptyCount(board) >= 1)
    /\ <>[](~game_active)

\* a game of nine placements
C29_Witness ==
    /\ ~game_active
    /\ pending = 0
    /\ MarkCount(board, "X") = 5
    /\ MarkCount(board, "O") = 4

\* the computer has answered, the game is over or it has been restarted
Answered ==
    \/ call.op = "ai_move" /\ call.searched
    \/ ~game_active
    \/ call.op = "restart_game"

(***************************************************************************)
(* C30: if a scheduled ai_move callback is eventually run, every accepted  *)
(* move of the human that does not end the game is eventually followed by  *)
(* one mark of the computer, by the end of the game or by a restart; an    *)
(* ai_move callback that runs while the game is active writes exactly one  *)
(* 'O', to a cell that was empty, and changes no other cell.               *)
(***************************************************************************)
C30_EveryMoveAnswered ==
    /\ (call.op = "player_move" /\ status.text = "AI is thinking...")
          ~> Answered
    /\ [][(TimerRuns /\ game_active) =>
             \E move \in EmptyCells(board) :
                board' = SetCell(board, move[1], move[2], "O")]_vars

\* the computer has answered while a second move of the human waits for
\* its answer
C30_Witness ==
    /\ call.op = "ai_move"
    /\ call.searched
    /\ game_active
    /\ pending > 0

(***************************************************************************)
(* C31: minimax(empty board, is_maximizing=False) is 0, and in the game    *)
(* where the human moves first and the computer plays find_best_move,      *)
(* every state right after a move of the computer has a minimax value,     *)
(* the human to move, of at least 0: the human can never force a win.      *)
(***************************************************************************)
C31_NeverForcedToLose ==
    /\ call.op = "init" =>
          (board = EmptyBoard /\ minimax(board, 0, FALSE).score = 0)
    /\ (call.op = "ai_move" /\ call.searched) =>
          minimax(board, 0, FALSE).score >= 0

\* the computer has answered the human's first move: the position is a draw
\* with best play
C31_Witness ==
    /\ call.op = "ai_move"
    /\ call.searched
    /\ game_active
    /\ EmptyCount(board) = 7
    /\ minimax(board, 0, FALSE).score = 0

(***************************************************************************)
(* C32: for every board with cells in {'', 'X', 'O'} and either value of   *)
(* is_maximizing, minimax returns -1, 0 or +1: the sentinels -infinity and *)
(* +infinity are never returned, because every board that is not terminal  *)
(* has an empty cell to explore.                                           *)
(***************************************************************************)
C32_ScoreInRange ==
    call.op = "minimax" =>
        /\ call.ret \in {-1, 0, 1}
        /\ call.ret # NegInf
        /\ call.ret # PosInf
        /\ (/\ ~check_winner(call.pre, "O")
            /\ ~check_winner(call.pre, "X")
            /\ ~is_draw(call.pre)) => Len(get_available_moves(call.pre)) >= 1

\* a minimizing call that has explored a board without a winner
C32_Witness ==
    /\ call.op = "minimax"
    /\ ~call.is_maximizing
    /\ ~check_winner(call.pre, "O")
    /\ ~check_winner(call.pre, "X")
    /\ EmptyCount(call.pre) >= 3
    /\ call.placed > 0
    /\ call.ret = 1

(***************************************************************************)
(* minimax with the two win checks in the other order: lines 120-121       *)
(* ('X' has won: -1) before lines 117-118 ('O' has won: 1), in every call  *)
(* of the recursion.                                                       *)
(***************************************************************************)
RECURSIVE minimax_human_first(_, _, _)
RECURSIVE MaximizingLoop_human_first(_, _, _, _, _)
RECURSIVE MinimizingLoop_human_first(_, _, _, _, _)

MaximizingLoop_human_first(b, depth, moves, i, best_score) ==
    IF i > Len(moves) THEN best_score
    ELSE MaximizingLoop_human_first(
             b, depth, moves, i + 1,
             Max(best_score,
                 minimax_human_first(
                     SetCell(b, moves[i][1], moves[i][2], "O"),
                     depth + 1, FALSE)))

MinimizingLoop_human_first(b, depth, moves, i, best_score) ==
    IF i > Len(moves) THEN best_score
    ELSE MinimizingLoop_human_first(
             b, depth, moves, i + 1,
             Min(best_score,
                 minimax_human_first(
                     SetCell(b, moves[i][1], moves[i][2], "X"),
                     depth + 1, TRUE)))

minimax_human_first(b, depth, is_maximizing) ==
    IF check_winner(b, "X") THEN -1
    ELSE IF check_winner(b, "O") THEN 1
    ELSE IF is_draw(b) THEN 0
    ELSE IF is_maximizing
         THEN MaximizingLoop_human_first(b, depth, get_available_moves(b),
                                         1, NegInf)
         ELSE MinimizingLoop_human_first(b, depth, get_available_moves(b),
                                         1, PosInf)

\* minimax and the variant return the same score on b
SameScore(b, is_maximizing) ==
    minimax(b, 0, is_maximizing).score
        = minimax_human_first(b, 0, is_maximizing)

(***************************************************************************)
(* C33: on every board reached by alternating legal moves, and on every    *)
(* board the search visits while exploring from such a board, the variant  *)
(* of minimax that checks the win of the human before the win of the       *)
(* computer returns the score minimax returns.                             *)
(***************************************************************************)
C33_CheckOrderImmaterial ==
    /\ (call.op # "search" /\ EmptyCount(board) <= MaxEmpty) =>
          (SameScore(board, TRUE) /\ SameScore(board, FALSE))
    /\ (call.op = "search" /\ Top(call.stack).pc = "enter") =>
          SameScore(board, Top(call.stack).is_maximizing)

\* the search visits a board on which the human has won
C33_Witness ==
    /\ call.op = "search"
    /\ Top(call.stack).pc = "enter"
    /\ Nesting >= 2
    /\ check_winner(board, "X")
    /\ minimax_human_first(board, 0, Top(call.stack).is_maximizing) = -1
====
